---- MODULE Spec2Model ----
(***************************************************************************)
(* micromap: a fixed-capacity map over an array of N slots, each slot a    *)
(* MaybeUninit<Option<(K, V)>>, with the field `next` as high-water mark.  *)
(* Model of src/src/map.rs and src/src/iterators.rs.                       *)
(***************************************************************************)
EXTENDS Integers, Sequences, FiniteSets, TLC

\* ------------------------------------------------------------------ bounds
MaxCap == 2          \* capacities N explored: 0..MaxCap
MaxKey == 3          \* keys explored: 1..MaxKey
MaxVal == 2          \* values explored: 1..MaxVal

Keys == 1..MaxKey
Vals == 1..MaxVal
Caps == 0..MaxCap

\* ------------------------------------------------------------- slot values
\* A slot is uninitialized memory, an initialized None or an initialized
\* Some((k, v)).
Uninit == [tag |-> "uninit", k |-> 0, v |-> 0]
None == [tag |-> "none", k |-> 0, v |-> 0]
Some(key, val) == [tag |-> "some", k |-> key, v |-> val]

VARIABLES
  cap,      \* the const generic N of this Map
  checked,  \* TRUE: debug_assert! is compiled in (debug build, feature std)
  pairs,    \* the slot array, indexed 0..cap-1
  next,     \* the high-water mark
  failed,   \* "no", "panic" (capacity exhausted), "undefined"
  op,       \* the last operation called: [name, k, v]
  prev,     \* the container before the last operation, or when the
            \* iterator alive now was made: [pairs, next]
  dropped,  \* the pairs released by the last operation, in order
  ret,      \* what the last operation returned (an Option)
  it,       \* the iterator alive now: [kind, pos, next, iter, done]
  yielded,  \* what the iterator has yielded so far, in order
  calls,    \* the pairs the last operation gave to its predicate, in order
  out,      \* the text the last operation wrote to its Formatter
  abs       \* the abstract map given the same calls: key -> Option of value

vars ==
  <<cap, checked, pairs, next, failed, op, prev, dropped, ret, it, yielded,
    calls, out, abs>>

\* ---------------------------------------------------------------- helpers
\* Map::item: a reference to the Option in slot i.
item(ps, i) == ps[i]

\* MaybeUninit::assume_init_drop on slot i: the pairs it releases.
drop_slot(ps, i) == IF ps[i].tag = "some" THEN <<ps[i]>> ELSE <<>>

\* What an operation leaves behind: the slots, the mark, whether it failed,
\* the pairs it released and the value it returned.
Result(ps, n, f, d, r) ==
  [pairs |-> ps, next |-> n, failed |-> f, dropped |-> d, ret |-> r]

\* The scan ended at the first None slot, as if the occupied slots were
\* always a prefix.
RECURSIVE find_stops_at_none(_, _, _, _)
find_stops_at_none(ps, n, k, i) ==
  IF i >= n \/ item(ps, i).tag = "none" THEN -1
  ELSE IF item(ps, i).tag = "some" /\ item(ps, i).k = k THEN i
  ELSE find_stops_at_none(ps, n, k, i + 1)

\* The scan shared by contains_key, remove, get, get_mut, get_key_value and
\* remove_entry: the first index in [i, n) whose slot is Some with key k,
\* or -1.
RECURSIVE find(_, _, _, _)
find(ps, n, k, i) ==
  IF i >= n THEN -1
  ELSE IF item(ps, i).tag = "some" /\ item(ps, i).k = k THEN i
  ELSE find(ps, n, k, i + 1)

\* ------------------------------------------------------------ read access
RECURSIVE len_loop(_, _, _, _)
len_loop(ps, n, i, busy) ==
  IF i >= n THEN busy
  ELSE len_loop(ps, n, i + 1, IF item(ps, i).tag = "some" THEN busy + 1 ELSE busy)

len(ps, n) == len_loop(ps, n, 0, 0)

is_empty(ps, n) == len(ps, n) = 0

contains_key(ps, n, k) == find(ps, n, k, 0) # -1

\* get: Some(&v) or None; the key field of the result is left 0.
get(ps, n, k) ==
  LET i == find(ps, n, k, 0)
  IN IF i = -1 THEN None ELSE Some(0, item(ps, i).v)

get_key_value(ps, n, k) ==
  LET i == find(ps, n, k, 0)
  IN IF i = -1 THEN None ELSE Some(item(ps, i).k, item(ps, i).v)

\* ------------------------------------------------------------- operations
\* insert_loop with the scan stopped at the first None slot, which is taken
\* as the target without looking for the key behind it.
RECURSIVE insert_loop_first_free(_, _, _, _, _)
insert_loop_first_free(ps, n, k, i, target) ==
  IF i = n THEN [target |-> target, hit |-> FALSE]
  ELSE IF item(ps, i).tag = "some"
       THEN IF item(ps, i).k = k
            THEN [target |-> i, hit |-> TRUE]
            ELSE insert_loop_first_free(ps, n, k, i + 1, target)
       ELSE [target |-> i, hit |-> FALSE]

\* insert_loop that never takes a None slot as the target.
RECURSIVE insert_loop_no_reuse(_, _, _, _, _)
insert_loop_no_reuse(ps, n, k, i, target) ==
  IF i = n THEN [target |-> target, hit |-> FALSE]
  ELSE IF item(ps, i).tag = "some" /\ item(ps, i).k = k
       THEN [target |-> i, hit |-> TRUE]
       ELSE insert_loop_no_reuse(ps, n, k, i + 1, target)

\* The loop of insert: where the pair goes (target) and whether the key was
\* found (hit), scanning from i with the target so far.
RECURSIVE insert_loop(_, _, _, _, _)
insert_loop(ps, n, k, i, target) ==
  IF i = n THEN [target |-> target, hit |-> FALSE]
  ELSE IF item(ps, i).tag = "some"
       THEN IF item(ps, i).k = k
            THEN [target |-> i, hit |-> TRUE]
            ELSE insert_loop(ps, n, k, i + 1, target)
       ELSE insert_loop(ps, n, k, i + 1, i)

\* insert that advances the mark on every write of a key not yet stored.
insert_always_advance(c, chk, ps, n, k, v) ==
  LET r == insert_loop(ps, n, k, 0, n)
  IN IF ~r.hit /\ ~(r.target < c)
     THEN Result(ps, n, IF chk THEN "panic" ELSE "undefined", <<>>, None)
     ELSE Result([ps EXCEPT ![r.target] = Some(k, v)],
                 IF r.hit THEN n ELSE n + 1,
                 "no",
                 IF r.hit THEN drop_slot(ps, r.target) ELSE <<>>,
                 None)

\* insert whose assertion is target <= N.
insert_off_by_one(c, chk, ps, n, k, v) ==
  LET r == insert_loop(ps, n, k, 0, n)
  IN IF ~r.hit /\ ~(r.target <= c)
     THEN Result(ps, n, IF chk THEN "panic" ELSE "undefined", <<>>, None)
     ELSE Result([i \in DOMAIN ps |-> IF i = r.target THEN Some(k, v) ELSE ps[i]],
                 IF r.target = n THEN n + 1 ELSE n,
                 "no",
                 IF r.hit THEN drop_slot(ps, r.target) ELSE <<>>,
                 None)

\* insert that leaves the stored pair alone when the key is found.
insert_keeps_old(c, chk, ps, n, k, v) ==
  LET r == insert_loop(ps, n, k, 0, n)
  IN IF r.hit THEN Result(ps, n, "no", <<>>, None)
     ELSE IF ~(r.target < c)
     THEN Result(ps, n, IF chk THEN "panic" ELSE "undefined", <<>>, None)
     ELSE Result([ps EXCEPT ![r.target] = Some(k, v)],
                 IF r.target = n THEN n + 1 ELSE n, "no", <<>>, None)

\* insert that overwrites the pair of a found key without dropping it.
insert_overwrite_leaks(c, chk, ps, n, k, v) ==
  LET r == insert_loop(ps, n, k, 0, n)
  IN IF ~r.hit /\ ~(r.target < c)
     THEN Result(ps, n, IF chk THEN "panic" ELSE "undefined", <<>>, None)
     ELSE Result([ps EXCEPT ![r.target] = Some(k, v)],
                 IF r.target = n THEN n + 1 ELSE n, "no", <<>>, None)

\* insert that moves a found key into a None slot when there is one, and
\* frees the slot that held it.
insert_moves(c, chk, ps, n, k, v) ==
  LET r == insert_loop(ps, n, k, 0, n)
      free == {j \in 0..(n - 1) : ps[j].tag = "none"}
  IN IF r.hit /\ free # {}
     THEN LET j == CHOOSE j \in free : TRUE
          IN Result([ps EXCEPT ![r.target] = None, ![j] = Some(k, v)], n, "no",
                    drop_slot(ps, r.target), None)
     ELSE IF ~r.hit /\ ~(r.target < c)
     THEN Result(ps, n, IF chk THEN "panic" ELSE "undefined", <<>>, None)
     ELSE Result([ps EXCEPT ![r.target] = Some(k, v)],
                 IF r.target = n THEN n + 1 ELSE n,
                 "no",
                 IF r.hit THEN drop_slot(ps, r.target) ELSE <<>>,
                 None)

\* insert that takes the mark, not the target, for the capacity test.
insert_checks_mark(c, chk, ps, n, k, v) ==
  LET r == insert_loop(ps, n, k, 0, n)
  IN IF ~(n < c)
     THEN Result(ps, n, IF chk THEN "panic" ELSE "undefined", <<>>, None)
     ELSE Result([ps EXCEPT ![r.target] = Some(k, v)],
                 IF r.target = n THEN n + 1 ELSE n,
                 "no",
                 IF r.hit THEN drop_slot(ps, r.target) ELSE <<>>,
                 None)

\* insert on a Map<K, V, c>; chk says whether debug_assert! is compiled in.
\* Without the assertion the write to pairs[c] is the documented undefined
\* behaviour.
insert(c, chk, ps, n, k, v) ==
  LET r == insert_loop(ps, n, k, 0, n)
  IN IF ~r.hit /\ ~(r.target < c)
     THEN Result(ps, n, IF chk THEN "panic" ELSE "undefined", <<>>, None)
     ELSE Result([ps EXCEPT ![r.target] = Some(k, v)],
                 IF r.target = n THEN n + 1 ELSE n,
                 "no",
                 IF r.hit THEN drop_slot(ps, r.target) ELSE <<>>,
                 None)

\* remove that lowers the mark when the last slot below it is freed.
remove_shrinks(ps, n, k) ==
  LET i == find(ps, n, k, 0)
  IN IF i = -1 THEN Result(ps, n, "no", <<>>, None)
     ELSE Result([ps EXCEPT ![i] = None], IF i = n - 1 THEN n - 1 ELSE n, "no",
                 drop_slot(ps, i), None)

\* remove that writes None over the slot without assume_init_drop.
remove_no_drop(ps, n, k) ==
  LET i == find(ps, n, k, 0)
  IN IF i = -1 THEN Result(ps, n, "no", <<>>, None)
     ELSE Result([ps EXCEPT ![i] = None], n, "no", <<>>, None)

remove(ps, n, k) ==
  LET i == find(ps, n, k, 0)
  IN IF i = -1 THEN Result(ps, n, "no", <<>>, None)
     ELSE Result([ps EXCEPT ![i] = None], n, "no", drop_slot(ps, i), None)

\* remove_entry that returns the pair and leaves it in the slot.
remove_entry_keeps(ps, n, k) ==
  LET i == find(ps, n, k, 0)
  IN IF i = -1 THEN Result(ps, n, "no", <<>>, None)
     ELSE Result(ps, n, "no", <<>>, item(ps, i))

\* remove_entry: mem::replace moves the Option out, nothing is dropped.
remove_entry(ps, n, k) ==
  LET i == find(ps, n, k, 0)
  IN IF i = -1 THEN Result(ps, n, "no", <<>>, None)
     ELSE Result([ps EXCEPT ![i] = None], n, "no", <<>>, item(ps, i))

\* get_mut followed by a write of nv through the returned reference.
get_mut(ps, n, k, nv) ==
  LET i == find(ps, n, k, 0)
  IN IF i = -1 THEN Result(ps, n, "no", <<>>, None)
     ELSE Result([ps EXCEPT ![i] = Some(item(ps, i).k, nv)], n, "no", <<>>,
                 Some(0, item(ps, i).v))

\* clear: every slot below the mark is dropped in place and the mark is
\* reset, so these slots are uninitialized again.
RECURSIVE clear_loop(_, _, _)
clear_loop(ps, n, i) ==
  IF i >= n THEN <<>> ELSE drop_slot(ps, i) \o clear_loop(ps, n, i + 1)

\* clear that drops the slots and leaves the mark where it was.
clear_keeps_mark(ps, n) ==
  Result([i \in DOMAIN ps |-> IF i < n THEN Uninit ELSE ps[i]], n, "no",
         clear_loop(ps, n, 0), None)

\* clear that resets the mark without dropping the slots.
clear_no_drop(ps, n) ==
  Result([i \in DOMAIN ps |-> IF i < n THEN Uninit ELSE ps[i]], 0, "no",
         <<>>, None)

clear(ps, n) ==
  Result([i \in DOMAIN ps |-> IF i < n THEN Uninit ELSE ps[i]], 0, "no",
         clear_loop(ps, n, 0), None)

\* The predicates given to retain: |k, _| k < a (with b = 0) and
\* |_, v| v > b (with a = MaxKey + 1).
Preds ==
  {[a |-> a, b |-> 0] : a \in 1..(MaxKey + 1)}
    \cup {[a |-> MaxKey + 1, b |-> b] : b \in 1..MaxVal}
f(p, k, v) == k < p.a /\ v > p.b

\* retain with the test of the predicate inverted.
RECURSIVE retain_loop_inverted(_, _, _, _)
retain_loop_inverted(ps, n, p, i) ==
  IF i >= n THEN ps
  ELSE IF item(ps, i).tag = "some" /\ f(p, item(ps, i).k, item(ps, i).v)
       THEN retain_loop_inverted([ps EXCEPT ![i] = None], n, p, i + 1)
       ELSE retain_loop_inverted(ps, n, p, i + 1)

\* retain: a rejected slot is overwritten with None by MaybeUninit::write,
\* which does not drop the old content.
RECURSIVE retain_loop(_, _, _, _)
retain_loop(ps, n, p, i) ==
  IF i >= n THEN ps
  ELSE IF item(ps, i).tag = "some" /\ ~f(p, item(ps, i).k, item(ps, i).v)
       THEN retain_loop([ps EXCEPT ![i] = None], n, p, i + 1)
       ELSE retain_loop(ps, n, p, i + 1)

\* retain that lowers the mark when the last slot below it ends up None.
retain_trims(ps, n, p) ==
  LET qs == retain_loop(ps, n, p, 0)
  IN Result(qs, IF n > 0 /\ qs[n - 1].tag = "none" THEN n - 1 ELSE n, "no",
            <<>>, None)

retain(ps, n, p) == Result(retain_loop(ps, n, p, 0), n, "no", <<>>, None)

\* The calls of f made by the loop of retain from slot i on, in order.
RECURSIVE retain_calls(_, _, _, _)
retain_calls(ps, n, p, i) ==
  IF i >= n THEN <<>>
  ELSE IF item(ps, i).tag = "some"
       THEN <<item(ps, i)>> \o
            retain_calls(IF ~f(p, item(ps, i).k, item(ps, i).v)
                         THEN [ps EXCEPT ![i] = None] ELSE ps, n, p, i + 1)
       ELSE retain_calls(ps, n, p, i + 1)

\* ----------------------------------------------------------- abstract map
\* A finite function from keys to values, written as a function from every
\* key to an Option of a value (None where the key has no value, Some with
\* the key field left 0 where it has one), and what each call of the
\* container means on it.
abs_new == [k \in Keys |-> None]
abs_len(a) == Cardinality({k \in Keys : a[k] # None})
abs_insert(a, k, v) == [a EXCEPT ![k] = Some(0, v)]
abs_remove(a, k) == [a EXCEPT ![k] = None]
abs_update(a, k, v) == IF a[k] = None THEN a ELSE [a EXCEPT ![k] = Some(0, v)]
abs_retain(a, p) ==
  [k \in Keys |-> IF a[k] # None /\ f(p, k, a[k].v) THEN a[k] ELSE None]

RECURSIVE abs_from_seq(_, _)
abs_from_seq(a, seq) ==
  IF seq = <<>> THEN a
  ELSE abs_from_seq(abs_insert(a, Head(seq).k, Head(seq).v), Tail(seq))

\* The abstract map after call c on a map bounded by n keys; an insert that
\* would store more than n keys is not run.
abs_call(a, n, c) ==
  CASE c.name = "insert" ->
         IF a[c.k] = None /\ abs_len(a) >= n THEN a
         ELSE abs_insert(a, c.k, c.v)
    [] c.name \in {"remove", "remove_entry"} -> abs_remove(a, c.k)
    [] c.name = "get_mut" -> abs_update(a, c.k, c.v)
    [] c.name = "clear" -> abs_new
    [] c.name = "retain" -> abs_retain(a, [a |-> c.k, b |-> c.v])

\* ------------------------------------------------------------------ state
\* Map::new: no slot initialized, next = 0.
new_pairs(c) == [i \in 0..(c - 1) |-> Uninit]

NoIter == [kind |-> "none", pos |-> 0, next |-> 0, iter |-> 0, done |-> FALSE]
Call(name, k, v) == [name |-> name, k |-> k, v |-> v]

Init ==
  /\ cap \in Caps
  /\ checked \in BOOLEAN
  /\ pairs = new_pairs(cap)
  /\ next = 0
  /\ failed = "no"
  /\ op = Call("new", 0, 0)
  /\ prev = [pairs |-> new_pairs(cap), next |-> 0]
  /\ dropped = <<>>
  /\ ret = None
  /\ it = NoIter
  /\ yielded = <<>>
  /\ calls = <<>>
  /\ out = ""
  /\ abs = abs_new

\* The container is owned by the caller, not borrowed and not failed.
Usable == failed = "no" /\ it.kind = "none"

\* One call on the container: r is what the operation computed, cs the
\* calls it made of a predicate given to it.
Effect(c, r, cs) ==
  /\ Usable
  /\ op' = c
  /\ prev' = [pairs |-> pairs, next |-> next]
  /\ pairs' = r.pairs
  /\ next' = r.next
  /\ failed' = r.failed
  /\ dropped' = r.dropped
  /\ ret' = r.ret
  /\ calls' = cs
  /\ out' = ""
  /\ abs' = abs_call(abs, cap, c)
  /\ UNCHANGED <<cap, checked, it, yielded>>

Apply(c, r) == Effect(c, r, <<>>)

Insert ==
  \E k \in Keys, v \in Vals :
    Apply(Call("insert", k, v), insert(cap, checked, pairs, next, k, v))

Remove ==
  \E k \in Keys : Apply(Call("remove", k, 0), remove(pairs, next, k))

RemoveEntry ==
  \E k \in Keys : Apply(Call("remove_entry", k, 0), remove_entry(pairs, next, k))

GetMut ==
  \E k \in Keys, v \in Vals :
    Apply(Call("get_mut", k, v), get_mut(pairs, next, k, v))

Clear == Apply(Call("clear", 0, 0), clear(pairs, next))

Retain ==
  \E p \in Preds :
    Effect(Call("retain", p.a, p.b), retain(pairs, next, p),
           retain_calls(pairs, next, p, 0))

\* -------------------------------------------------------------- iterators
\* Iter::next that ends the iteration at the first None slot.
RECURSIVE iter_next_stops(_, _, _)
iter_next_stops(ps, pos, n) ==
  IF ~(pos < n) THEN [pos |-> pos, ret |-> None]
  ELSE IF ps[pos].tag = "some" THEN [pos |-> pos + 1, ret |-> ps[pos]]
  ELSE [pos |-> n, ret |-> None]

\* Iter::next from cursor pos with the captured bound n: the cursor after the
\* call and the Option returned.
RECURSIVE iter_next(_, _, _)
iter_next(ps, pos, n) ==
  IF ~(pos < n) THEN [pos |-> pos, ret |-> None]
  ELSE IF ps[pos].tag = "some" THEN [pos |-> pos + 1, ret |-> ps[pos]]
  ELSE iter_next(ps, pos + 1, n)

\* IterMut::next: the slot comes from the slice iterator `iter` (cursor cur),
\* advanced together with pos.
RECURSIVE iter_mut_next(_, _, _, _)
iter_mut_next(ps, pos, n, cur) ==
  IF ~(pos < n) THEN [pos |-> pos, iter |-> cur, ret |-> None]
  ELSE IF ps[cur].tag = "some"
       THEN [pos |-> pos + 1, iter |-> cur + 1, ret |-> ps[cur]]
  ELSE iter_mut_next(ps, pos + 1, n, cur + 1)

\* IntoIter::next whose loop bound is one short, so the last slot below the
\* mark is never visited.
RECURSIVE into_iter_next_short(_, _, _)
into_iter_next_short(ps, pos, n) ==
  IF ~(pos < n - 1) THEN [pos |-> pos, pairs |-> ps, ret |-> None]
  ELSE IF ps[pos].tag = "some"
       THEN [pos |-> pos + 1, pairs |-> [ps EXCEPT ![pos] = None], ret |-> ps[pos]]
  ELSE into_iter_next_short(ps, pos + 1, n)

\* IntoIter::next that returns a copy of the pair and leaves it in the slot.
RECURSIVE into_iter_next_keeps(_, _, _)
into_iter_next_keeps(ps, pos, n) ==
  IF ~(pos < n) THEN [pos |-> pos, pairs |-> ps, ret |-> None]
  ELSE IF ps[pos].tag = "some"
       THEN [pos |-> pos + 1, pairs |-> ps, ret |-> ps[pos]]
  ELSE into_iter_next_keeps(ps, pos + 1, n)

\* IntoIter::next on the owned map: an occupied slot is replaced by None and
\* its content returned.
RECURSIVE into_iter_next(_, _, _)
into_iter_next(ps, pos, n) ==
  IF ~(pos < n) THEN [pos |-> pos, pairs |-> ps, ret |-> None]
  ELSE IF ps[pos].tag = "some"
       THEN [pos |-> pos + 1, pairs |-> [ps EXCEPT ![pos] = None], ret |-> ps[pos]]
  ELSE into_iter_next(ps, pos + 1, n)

\* Dropping a Map: every occupied slot below the mark is released.
drop_map(ps, n) == clear_loop(ps, n, 0)

\* Map::from_iter: insert the pairs of seq in order, from st on.
RECURSIVE from_iter_loop(_, _, _, _)
from_iter_loop(c, chk, st, seq) ==
  IF seq = <<>> \/ st.failed # "no" THEN st
  ELSE LET r == insert(c, chk, st.pairs, st.next, Head(seq).k, Head(seq).v)
       IN from_iter_loop(c, chk,
            [r EXCEPT !.dropped = st.dropped \o r.dropped], Tail(seq))

from_iter(c, chk, seq) ==
  from_iter_loop(c, chk, Result(new_pairs(c), 0, "no", <<>>, None), seq)

\* Making an iterator of the given kind over the container.
MakeIter(kind) ==
  /\ Usable
  /\ op' = Call(kind, 0, 0)
  /\ prev' = [pairs |-> pairs, next |-> next]
  /\ it' = [kind |-> kind, pos |-> 0, next |-> next, iter |-> 0, done |-> FALSE]
  /\ yielded' = <<>>
  /\ dropped' = <<>>
  /\ ret' = None
  /\ calls' = <<>>
  /\ out' = ""
  /\ UNCHANGED <<cap, checked, pairs, next, failed, abs>>

IterNew == MakeIter("iter")
IterMutNew == MakeIter("iter_mut")
IntoIterNew == MakeIter("into_iter")

\* One call of next() that returned r.
Step(name, r) ==
  /\ op' = Call(name, 0, 0)
  /\ ret' = r.ret
  /\ yielded' = IF r.ret.tag = "some" THEN Append(yielded, r.ret) ELSE yielded
  /\ dropped' = <<>>
  /\ UNCHANGED <<cap, checked, next, failed, prev, calls, out, abs>>

IterNext ==
  /\ it.kind = "iter" /\ ~it.done
  /\ LET r == iter_next(pairs, it.pos, it.next)
     IN /\ Step("iter_next", r)
        /\ it' = [it EXCEPT !.pos = r.pos, !.done = (r.ret.tag = "none")]
        /\ UNCHANGED pairs

IterMutNext ==
  /\ it.kind = "iter_mut" /\ ~it.done
  /\ LET r == iter_mut_next(pairs, it.pos, it.next, it.iter)
     IN /\ Step("iter_mut_next", r)
        /\ it' = [it EXCEPT !.pos = r.pos, !.iter = r.iter,
                            !.done = (r.ret.tag = "none")]
        /\ UNCHANGED pairs

\* The caller writes nv through the &mut V it was given last.
IterMutWrite ==
  /\ it.kind = "iter_mut" /\ op.name = "iter_mut_next" /\ ret.tag = "some"
  /\ \E nv \in Vals :
       /\ pairs' = [pairs EXCEPT ![it.iter - 1] = Some(pairs[it.iter - 1].k, nv)]
       /\ op' = Call("iter_mut_write", 0, nv)
       /\ abs' = abs_update(abs, pairs[it.iter - 1].k, nv)
  /\ ret' = None
  /\ UNCHANGED <<cap, checked, next, failed, prev, dropped, it, yielded,
                 calls, out>>

IntoIterNext ==
  /\ it.kind = "into_iter" /\ ~it.done
  /\ LET r == into_iter_next(pairs, it.pos, next)
     IN /\ Step("into_iter_next", r)
        /\ it' = [it EXCEPT !.pos = r.pos, !.done = (r.ret.tag = "none")]
        /\ pairs' = r.pairs

\* The borrowing iterator goes out of scope: the container is usable again.
IterEnd ==
  /\ it.kind \in {"iter", "iter_mut"}
  /\ op' = Call("iter_end", 0, 0)
  /\ prev' = [pairs |-> pairs, next |-> next]
  /\ it' = NoIter
  /\ yielded' = <<>>
  /\ dropped' = <<>>
  /\ ret' = None
  /\ calls' = <<>>
  /\ out' = ""
  /\ UNCHANGED <<cap, checked, pairs, next, failed, abs>>

\* The container goes out of scope, alone or inside its IntoIter.
Drop ==
  /\ failed = "no" /\ it.kind \in {"none", "into_iter"}
  /\ op' = Call("drop", 0, 0)
  /\ prev' = IF it.kind = "none" THEN [pairs |-> pairs, next |-> next] ELSE prev
  /\ dropped' = drop_map(pairs, next)
  /\ pairs' = new_pairs(cap)
  /\ next' = 0
  /\ it' = [NoIter EXCEPT !.kind = "dropped"]
  /\ ret' = None
  /\ abs' = abs_new
  /\ UNCHANGED <<cap, checked, failed, yielded, calls, out>>

\* The pairs collected from an exhausted IntoIter are inserted into a fresh
\* container of the same capacity, which replaces the consumed one.
FromIter ==
  /\ failed = "no" /\ it.kind = "into_iter" /\ it.done
  /\ LET r == from_iter(cap, checked, yielded)
     IN /\ pairs' = r.pairs
        /\ next' = r.next
        /\ failed' = r.failed
        /\ dropped' = drop_map(pairs, next) \o r.dropped
  /\ op' = Call("from_iter", 0, 0)
  /\ it' = NoIter
  /\ yielded' = <<>>
  /\ ret' = None
  /\ abs' = abs_from_seq(abs_new, yielded)
  /\ UNCHANGED <<cap, checked, prev, calls, out>>

\* ----------------------------------------------------------- slot accesses
\* The slots one call touches: reads (item, assume_init_ref,
\* assume_init_mut), drops (assume_init_drop) and writes (write,
\* mem::replace).
Access(r, d, w) == [reads |-> r, drops |-> d, writes |-> w]

\* The slots the shared scan for key k reads from slot i on.
RECURSIVE find_reads(_, _, _, _)
find_reads(ps, n, k, i) ==
  IF i >= n THEN {}
  ELSE IF item(ps, i).tag = "some" /\ item(ps, i).k = k THEN {i}
  ELSE {i} \cup find_reads(ps, n, k, i + 1)

\* The slots the loop of insert reads from slot i on.
RECURSIVE insert_reads(_, _, _, _)
insert_reads(ps, n, k, i) ==
  IF i = n THEN {}
  ELSE IF item(ps, i).tag = "some" /\ item(ps, i).k = k THEN {i}
  ELSE {i} \cup insert_reads(ps, n, k, i + 1)

len_access(ps, n) == Access(0..(n - 1), {}, {})

\* contains_key, get and get_key_value.
lookup_access(ps, n, k) == Access(find_reads(ps, n, k, 0), {}, {})

get_mut_access(ps, n, k) ==
  LET i == find(ps, n, k, 0)
  IN Access(find_reads(ps, n, k, 0), {}, IF i = -1 THEN {} ELSE {i})

remove_access(ps, n, k) ==
  LET i == find(ps, n, k, 0)
  IN Access(find_reads(ps, n, k, 0),
            IF i = -1 THEN {} ELSE {i}, IF i = -1 THEN {} ELSE {i})

remove_entry_access(ps, n, k) ==
  LET i == find(ps, n, k, 0)
  IN Access(find_reads(ps, n, k, 0), {}, IF i = -1 THEN {} ELSE {i})

\* insert, when its assertion holds: the write goes to the target.
insert_access(ps, n, k) ==
  LET r == insert_loop(ps, n, k, 0, n)
  IN Access(insert_reads(ps, n, k, 0),
            IF r.hit THEN {r.target} ELSE {}, {r.target})

clear_access(ps, n) == Access({}, 0..(n - 1), {})

retain_access(ps, n, p) ==
  Access(0..(n - 1), {},
         {i \in 0..(n - 1) :
            item(ps, i).tag = "some" /\ ~f(p, item(ps, i).k, item(ps, i).v)})

\* One call of next() of each iterator.
iter_access(ps, pos, n) ==
  Access(pos..(iter_next(ps, pos, n).pos - 1), {}, {})

iter_mut_access(ps, pos, n, cur) ==
  Access(cur..(iter_mut_next(ps, pos, n, cur).iter - 1), {}, {})

into_iter_access(ps, pos, n) ==
  LET r == into_iter_next(ps, pos, n)
  IN Access(pos..(r.pos - 1), {},
            IF r.ret.tag = "some" THEN {r.pos - 1} ELSE {})

\* ------------------------------------------------------------- rendering
\* join with a separator after every part, the last one included.
RECURSIVE join_trailing(_, _)
join_trailing(parts, sep) ==
  IF parts = <<>> THEN ""
  ELSE Head(parts) \o sep \o join_trailing(Tail(parts), sep)

\* parts.join(sep)
RECURSIVE join(_, _)
join(parts, sep) ==
  IF parts = <<>> THEN ""
  ELSE IF Len(parts) = 1 THEN Head(parts)
  ELSE Head(parts) \o sep \o join(Tail(parts), sep)

\* The loop of Debug::fmt over self.iter(): one "{k}: {v}" per yielded pair.
RECURSIVE fmt_parts(_, _, _)
fmt_parts(ps, pos, n) ==
  LET r == iter_next(ps, pos, n)
  IN IF r.ret.tag = "some"
     THEN <<ToString(r.ret.k) \o ": " \o ToString(r.ret.v)>>
            \o fmt_parts(ps, r.pos, n)
     ELSE <<>>

\* Debug::fmt: what is written to the Formatter.
fmt_debug(ps, n) == "{" \o join(fmt_parts(ps, 0, n), ", ") \o "}"

\* Display::fmt delegates to Debug::fmt.
fmt_display(ps, n) == fmt_debug(ps, n)

\* One call of fmt on the container.
Fmt(name, text) ==
  /\ Usable
  /\ op' = Call(name, 0, 0)
  /\ prev' = [pairs |-> pairs, next |-> next]
  /\ out' = text
  /\ dropped' = <<>>
  /\ ret' = None
  /\ calls' = <<>>
  /\ UNCHANGED <<cap, checked, pairs, next, failed, it, yielded, abs>>

DebugFmt == Fmt("debug", fmt_debug(pairs, next))
DisplayFmt == Fmt("display", fmt_display(pairs, next))

Next ==
  \/ Insert
  \/ Remove
  \/ RemoveEntry
  \/ GetMut
  \/ Clear
  \/ Retain
  \/ IterNew
  \/ IterMutNew
  \/ IntoIterNew
  \/ IterNext
  \/ IterMutNext
  \/ IterMutWrite
  \/ IntoIterNext
  \/ IterEnd
  \/ Drop
  \/ FromIter
  \/ DebugFmt
  \/ DisplayFmt

Spec == Init /\ [][Next]_vars

\* ----------------------------------------------------------------- claims
Occupied(ps, n) == {i \in 0..(n - 1) : ps[i].tag = "some"}
Tombstoned(ps, n) == {i \in 0..(n - 1) : ps[i].tag = "none"}
SlotsOf(ps, n, k) == {i \in Occupied(ps, n) : ps[i].k = k}
Stored(ps, n, k) == SlotsOf(ps, n, k) # {}
OccupiedSeq(ps, n) ==
  SelectSeq([i \in 1..n |-> ps[i - 1]], LAMBDA s : s.tag = "some")
Held(ps, n, p) == Cardinality({i \in Occupied(ps, n) : ps[i] = p})
Count(seq, p) == Cardinality({i \in 1..Len(seq) : seq[i] = p})
AllPairs == {Some(k, v) : k \in Keys, v \in Vals}
PrevStored == Stored(prev.pairs, prev.next, op.k)
PrevLen == len(prev.pairs, prev.next)
PrevTombstoned == Tombstoned(prev.pairs, prev.next)

\* C1: as long as no insert has hit the capacity-exhausted condition, no two
\* occupied slots below the mark hold equal keys; and an insert of a key that
\* is stored writes the slot that holds the key and leaves every tombstoned
\* slot tombstoned, also the ones before it.
C1_KeyUniqueness ==
  failed = "no" =>
    /\ \A i, j \in Occupied(pairs, next) : pairs[i].k = pairs[j].k => i = j
    /\ op.name = "insert" =>
         \A i \in SlotsOf(prev.pairs, prev.next, op.k) :
           /\ pairs[i] = Some(op.k, op.v)
           /\ \A j \in PrevTombstoned : pairs[j] = None

\* The scenario of insert_duplicate_after_remove: the key sits behind a
\* tombstoned slot, is inserted again with another value, and is then the
\* only key, with the new value.
C1_Witness ==
  /\ op.name = "insert" /\ failed = "no"
  /\ \E i \in SlotsOf(prev.pairs, prev.next, op.k) :
       /\ \E j \in PrevTombstoned : j < i
       /\ prev.pairs[i].v # op.v
  /\ len(pairs, next) = 1
  /\ get(pairs, next, op.k) = Some(0, op.v)

\* C2: as long as no insert has hit the capacity-exhausted condition, the
\* mark is within 0..N, and len() is the number of occupied slots below the
\* mark and at most N.
C2_CapacityBound ==
  failed = "no" =>
    /\ 0 <= next /\ next <= cap
    /\ len(pairs, next) = Cardinality(Occupied(pairs, next))
    /\ len(pairs, next) <= cap

\* An insert into a container whose mark is at N and that holds a tombstone.
C2_Witness ==
  /\ op.name = "insert" /\ failed = "no"
  /\ cap >= 2 /\ prev.next = cap /\ next = cap
  /\ PrevLen < cap /\ len(pairs, next) = PrevLen + 1

\* C3: in a checked build, an insert of a key that is not stored, with no
\* tombstoned slot below the mark and the mark at N, fails with the
\* capacity-exhausted panic and stores nothing; so does every insert on a
\* container of capacity 0.
C3_CapacityExhausted ==
  (op.name = "insert" /\ checked) =>
    /\ (~PrevStored /\ PrevTombstoned = {} /\ prev.next = cap) =>
         (failed = "panic" /\ pairs = prev.pairs /\ next = prev.next)
    /\ cap = 0 => failed = "panic"

\* The (N+1)-th insert of pairwise distinct keys with N >= 1.
C3_Witness ==
  /\ op.name = "insert" /\ checked /\ failed = "panic"
  /\ cap >= 1 /\ PrevLen = cap /\ ~PrevStored

\* C4: an insert of a key that is stored does not fail, leaves len()
\* unchanged, and get of the key then returns the inserted value.
C4_DuplicateInsert ==
  (op.name = "insert" /\ PrevStored) =>
    /\ failed = "no"
    /\ len(pairs, next) = PrevLen
    /\ get(pairs, next, op.k) = Some(0, op.v)

\* A stored key inserted with another value into a full container.
C4_Witness ==
  /\ op.name = "insert" /\ PrevStored
  /\ cap >= 1 /\ PrevLen = cap
  /\ get(prev.pairs, prev.next, op.k) # Some(0, op.v)

\* C5: remove of a stored key makes the key absent, lowers len() by one,
\* keeps every other key's value and the mark, and leaves the slot
\* tombstoned; remove of a key that is not stored changes nothing.
C5_Remove ==
  op.name = "remove" =>
    IF PrevStored
    THEN /\ ~contains_key(pairs, next, op.k)
         /\ get(pairs, next, op.k) = None
         /\ len(pairs, next) = PrevLen - 1
         /\ \A k \in Keys \ {op.k} :
              get(pairs, next, k) = get(prev.pairs, prev.next, k)
         /\ next = prev.next
         /\ \A i \in SlotsOf(prev.pairs, prev.next, op.k) : pairs[i] = None
    ELSE pairs = prev.pairs /\ next = prev.next

\* A stored key removed from the last slot below the mark, another key left.
C5_Witness ==
  /\ op.name = "remove" /\ PrevStored
  /\ prev.next - 1 \in SlotsOf(prev.pairs, prev.next, op.k)
  /\ len(pairs, next) >= 1

\* C6: remove_entry of a stored key returns the stored pair and leaves its
\* slot tombstoned, so the key is absent; remove_entry of a key that is not
\* stored returns None and changes nothing.
C6_RemoveEntry ==
  op.name = "remove_entry" =>
    IF PrevStored
    THEN /\ \A i \in SlotsOf(prev.pairs, prev.next, op.k) :
              ret = prev.pairs[i] /\ pairs[i] = None
         /\ ret.tag = "some" /\ ret.k = op.k
         /\ ~contains_key(pairs, next, op.k)
    ELSE ret = None /\ pairs = prev.pairs /\ next = prev.next

\* A stored key taken out with remove_entry, another key left.
C6_Witness ==
  /\ op.name = "remove_entry" /\ PrevStored
  /\ ret.tag = "some" /\ len(pairs, next) >= 1

\* C7: an insert of a key that is not stored, with a tombstoned slot below
\* the mark, writes the pair into a tombstoned slot, changes no other slot
\* and keeps the mark; the mark moves only when no tombstoned slot exists.
C7_RemoveThenReuse ==
  op.name = "insert" =>
    /\ (~PrevStored /\ PrevTombstoned # {}) =>
         /\ failed = "no"
         /\ next = prev.next
         /\ \E j \in PrevTombstoned :
              /\ pairs[j] = Some(op.k, op.v)
              /\ \A i \in DOMAIN pairs \ {j} : pairs[i] = prev.pairs[i]
    /\ next # prev.next => PrevTombstoned = {}

\* A new key inserted while the mark is at N and a slot is tombstoned.
C7_Witness ==
  /\ op.name = "insert" /\ ~PrevStored /\ PrevTombstoned # {}
  /\ cap >= 1 /\ prev.next = cap /\ failed = "no"

\* C8: an iterator of any of the three kinds never yields anything but the
\* pair of an occupied slot, and once it has returned None it has yielded
\* the pairs of the slots occupied when it was made, each once in slot
\* order, as many as len() was then.
C8_TombstoneSkip ==
  it.kind \in {"iter", "iter_mut", "into_iter"} =>
    /\ \A i \in 1..Len(yielded) : yielded[i].tag = "some"
    /\ it.done =>
         /\ yielded = OccupiedSeq(prev.pairs, prev.next)
         /\ Len(yielded) = PrevLen

\* A borrowing iterator run to its end over a container with a tombstoned
\* slot before an occupied one.
C8_Witness ==
  /\ it.kind = "iter" /\ it.done /\ Len(yielded) >= 1
  /\ \E j \in PrevTombstoned, i \in Occupied(prev.pairs, prev.next) : j < i

\* C9: the pairs collected from a consuming iterator, inserted one by one
\* into a fresh container of the same capacity, never exhaust the capacity
\* and give a container with the same len() and the same value for every key.
C9_RoundTrip ==
  op.name = "from_iter" =>
    /\ failed = "no"
    /\ len(pairs, next) = PrevLen
    /\ \A k \in Keys : get(pairs, next, k) = get(prev.pairs, prev.next, k)
    /\ {pairs[i] : i \in Occupied(pairs, next)}
         = {prev.pairs[i] : i \in Occupied(prev.pairs, prev.next)}

\* A round trip of a container with a tombstoned slot before an occupied
\* one: the new container lays the pairs out differently.
C9_Witness ==
  /\ op.name = "from_iter" /\ failed = "no"
  /\ len(pairs, next) >= 1
  /\ \E j \in PrevTombstoned, i \in Occupied(prev.pairs, prev.next) : j < i
  /\ pairs # prev.pairs

\* C10: remove of a stored key releases that pair once and returns nothing;
\* remove_entry of a stored key releases nothing and hands the pair to the
\* caller; neither releases anything when the key is absent; and every pair
\* held before the call is afterwards held by the container, released or
\* handed out, exactly as often as it was held.
C10_DropOnRemoval ==
  op.name \in {"remove", "remove_entry"} =>
    /\ op.name = "remove" =>
         /\ ret = None
         /\ IF PrevStored
            THEN \E i \in SlotsOf(prev.pairs, prev.next, op.k) :
                   dropped = <<prev.pairs[i]>>
            ELSE dropped = <<>>
    /\ op.name = "remove_entry" => dropped = <<>>
    /\ \A p \in AllPairs :
         Held(prev.pairs, prev.next, p)
           = Held(pairs, next, p) + Count(dropped, p) + (IF ret = p THEN 1 ELSE 0)

\* A stored pair released by remove while another pair stays.
C10_Witness ==
  /\ op.name = "remove" /\ PrevStored
  /\ Len(dropped) = 1 /\ len(pairs, next) >= 1

Pred == [a |-> op.k, b |-> op.v]
PrevOccupied == Occupied(prev.pairs, prev.next)
PrevSeq == OccupiedSeq(prev.pairs, prev.next)

\* C11: an insert of a key that is stored releases the pair stored before,
\* once, and no other pair; the container then holds the inserted pair once,
\* and every pair is held, after the call, as often as before, less what was
\* released, plus the inserted one.
C11_DropOnOverwrite ==
  (op.name = "insert" /\ PrevStored) =>
    /\ \E i \in SlotsOf(prev.pairs, prev.next, op.k) : dropped = <<prev.pairs[i]>>
    /\ Held(pairs, next, Some(op.k, op.v)) = 1
    /\ \A p \in AllPairs :
         Held(prev.pairs, prev.next, p) + (IF p = Some(op.k, op.v) THEN 1 ELSE 0)
           = Held(pairs, next, p) + Count(dropped, p)

\* The scenario of insert_drop_duplicate: the same key and value twice.
C11_Witness ==
  /\ op.name = "insert" /\ PrevStored /\ failed = "no"
  /\ dropped = <<Some(op.k, op.v)>>
  /\ PrevLen = cap

\* C12: while a consuming iterator lives, no pair has been yielded twice,
\* every slot behind its cursor holds None, and the pairs still in its
\* container are those not yet yielded; when the container is destroyed,
\* every pair it held is released by the destruction or was handed to the
\* caller, exactly as often as it was held.
C12_IntoIterDrop ==
  /\ it.kind = "into_iter" =>
       /\ \A p \in AllPairs :
            /\ Count(yielded, p) <= 1
            /\ Held(prev.pairs, prev.next, p)
                 = Held(pairs, next, p) + Count(yielded, p)
       /\ \A i \in 0..(it.pos - 1) : pairs[i].tag = "none"
  /\ op.name = "drop" =>
       \A p \in AllPairs :
         Held(prev.pairs, prev.next, p) = Count(yielded, p) + Count(dropped, p)

\* A consuming iterator abandoned after it yielded one pair, with another
\* pair still in its container.
C12_Witness ==
  /\ op.name = "drop" /\ Len(yielded) = 1 /\ Len(dropped) = 1

\* C13: retain calls the predicate once for each slot occupied when it
\* starts, in ascending slot order; afterwards a slot holds None if it was
\* occupied and rejected and is unchanged otherwise, the mark is unchanged,
\* and len() is the number of accepted pairs.
C13_Retain ==
  op.name = "retain" =>
    /\ calls = PrevSeq
    /\ next = prev.next
    /\ \A i \in DOMAIN pairs :
         pairs[i] = IF i \in PrevOccupied
                         /\ ~f(Pred, prev.pairs[i].k, prev.pairs[i].v)
                    THEN None ELSE prev.pairs[i]
    /\ len(pairs, next)
         = Cardinality({i \in PrevOccupied :
                          f(Pred, prev.pairs[i].k, prev.pairs[i].v)})

\* A retain that accepts one pair and rejects another.
C13_Witness ==
  /\ op.name = "retain" /\ Len(calls) >= 2
  /\ len(pairs, next) >= 1 /\ len(pairs, next) < PrevLen

\* The pairs (1, 1), ..., (c, 1) inserted one by one from (ps, n) on.
RECURSIVE InsertDistinct(_, _, _, _, _)
InsertDistinct(c, chk, ps, n, k) ==
  IF k > c THEN Result(ps, n, "no", <<>>, None)
  ELSE LET r == insert(c, chk, ps, n, k, 1)
       IN IF r.failed # "no" THEN r
          ELSE InsertDistinct(c, chk, r.pairs, r.next, k + 1)

\* C14: clear releases every pair occupied before it, once, sets the mark
\* to 0 and leaves len() 0 and every key absent; N pairwise distinct keys
\* can then be inserted without exhausting the capacity.
C14_Clear ==
  op.name = "clear" =>
    /\ dropped = PrevSeq
    /\ next = 0
    /\ len(pairs, next) = 0
    /\ \A k \in Keys : ~contains_key(pairs, next, k) /\ get(pairs, next, k) = None
    /\ LET r == InsertDistinct(cap, checked, pairs, next, 1)
       IN r.failed = "no" /\ len(r.pairs, r.next) = cap

\* A clear of a container with the mark at N, a pair and a tombstoned slot.
C14_Witness ==
  /\ op.name = "clear" /\ cap >= 2 /\ prev.next = cap
  /\ Len(dropped) >= 1 /\ PrevTombstoned # {}

Entry(s) == ToString(s.k) \o ": " \o ToString(s.v)
RECURSIVE Body(_)
Body(seq) ==
  IF Len(seq) = 0 THEN ""
  ELSE IF Len(seq) = 1 THEN Entry(seq[1])
  ELSE Body(SubSeq(seq, 1, Len(seq) - 1)) \o ", " \o Entry(seq[Len(seq)])
Rendering(seq) == "{" \o Body(seq) \o "}"

\* C15: the borrowing iterator yields the occupied pairs in ascending slot
\* order, and the debug and the user-facing rendering are both the text
\* {k1: v1, k2: v2} of these pairs in that order.
C15_RenderOrder ==
  /\ it.kind = "iter" => yielded = OccupiedSeq(prev.pairs, it.pos)
  /\ op.name \in {"debug", "display"} => out = Rendering(PrevSeq)

\* The user-facing rendering of two pairs.
C15_Witness ==
  /\ op.name = "display" /\ out = "{1: 2, 2: 1}"

Lowest(S) == CHOOSE i \in S : \A j \in S : i <= j
Highest(S) == CHOOSE i \in S : \A j \in S : j <= i
KeysOf(seq) == [i \in 1..Len(seq) |-> seq[i].k]

C17_RetainDrops ==
  op.name = "retain" =>
    \A p \in AllPairs :
      Held(prev.pairs, prev.next, p) = Held(pairs, next, p) + Count(dropped, p)

\* C18: an insert of a key stored in slot i writes the new pair into slot i
\* and changes neither another slot nor the mark, so iteration yields the
\* same keys in the same order as before.
C18_UpdateInPlace ==
  (op.name = "insert" /\ PrevStored) =>
    /\ \E i \in SlotsOf(prev.pairs, prev.next, op.k) :
         pairs = [prev.pairs EXCEPT ![i] = Some(op.k, op.v)]
    /\ next = prev.next
    /\ KeysOf(OccupiedSeq(pairs, next)) = KeysOf(PrevSeq)

\* A stored key inserted again while a slot before its own is tombstoned.
C18_Witness ==
  /\ op.name = "insert" /\ PrevStored /\ failed = "no"
  /\ \E i \in SlotsOf(prev.pairs, prev.next, op.k), j \in PrevTombstoned : j < i
  /\ pairs # prev.pairs

\* C19: the mark never decreases in a step other than clear (and the end of
\* the container's life); clear sets it to 0; an insert that does not fail
\* raises it by 1 when the key is not stored and no slot is tombstoned, and
\* leaves it alone otherwise.
C19_HighWater ==
  [][/\ op'.name \notin {"clear", "drop", "from_iter"} => next' >= next
     /\ op'.name = "clear" => next' = 0
     /\ (op'.name = "insert" /\ failed' = "no") =>
          next' = next + (IF ~Stored(pairs, next, op'.k)
                             /\ Tombstoned(pairs, next) = {}
                          THEN 1 ELSE 0)]_vars

\* An insert that raises the mark to N, after a clear had reset it from N.
C19_Witness ==
  /\ op.name = "insert" /\ failed = "no" /\ cap >= 1
  /\ next = cap /\ prev.next = cap - 1 /\ PrevLen = cap - 1

Initialized == {i \in DOMAIN pairs : i < next /\ pairs[i].tag # "uninit"}
Touched(a) == a.reads \cup a.drops \cup a.writes
Safe(a) == Touched(a) \subseteq Initialized

\* C20: every slot below the mark holds an initialized Option; whatever
\* operation is called next, and whatever next() of the iterator alive is
\* called, it reads, drops and writes only initialized slots below the
\* mark, but for insert, which may write slot `next`, and then advances
\* the mark past it.
C20_NoUninitAccess ==
  /\ failed = "no" => \A i \in DOMAIN pairs : i < next => pairs[i].tag # "uninit"
  /\ Usable =>
       /\ Safe(len_access(pairs, next))
       /\ Safe(clear_access(pairs, next))
       /\ \A p \in Preds : Safe(retain_access(pairs, next, p))
       /\ \A k \in Keys :
            /\ Safe(lookup_access(pairs, next, k))
            /\ Safe(get_mut_access(pairs, next, k))
            /\ Safe(remove_access(pairs, next, k))
            /\ Safe(remove_entry_access(pairs, next, k))
            /\ LET a == insert_access(pairs, next, k)
                   r == insert(cap, checked, pairs, next, k, 1)
               IN /\ a.reads \cup a.drops \subseteq Initialized
                  /\ r.failed = "no" =>
                       /\ a.writes \subseteq Initialized \cup {next}
                       /\ a.writes \subseteq DOMAIN pairs
                       /\ next \in a.writes => r.next = next + 1
  /\ (it.kind = "iter" /\ ~it.done) =>
       Safe(iter_access(pairs, it.pos, it.next))
  /\ (it.kind = "iter_mut" /\ ~it.done) =>
       Safe(iter_mut_access(pairs, it.pos, it.next, it.iter))
  /\ (it.kind = "into_iter" /\ ~it.done) =>
       Safe(into_iter_access(pairs, it.pos, next))

\* A container just cleared with the mark at N before: every slot is
\* uninitialized again and the next insert writes slot 0.
C20_Witness ==
  /\ op.name = "clear" /\ Usable /\ cap >= 2 /\ prev.next = cap
  /\ Initialized = {}
  /\ insert_access(pairs, next, 1).writes = {0}

\* C21: an insert never hits the capacity-exhausted condition when there is
\* logical room: when its key is stored (also with len() = N), or when
\* len() < N (also with the mark at N, a tombstoned slot being reused). The
\* pair is then stored and len() stays within N.
C21_InsertHasRoom ==
  (op.name = "insert" /\ (PrevStored \/ PrevLen < cap)) =>
    /\ failed = "no"
    /\ get_key_value(pairs, next, op.k) = Some(op.k, op.v)
    /\ len(pairs, next) = (IF PrevStored THEN PrevLen ELSE PrevLen + 1)
    /\ len(pairs, next) <= cap

\* Both cases with the mark at N: a new key inserted with len() = N - 1, and
\* a stored key inserted with len() = N.
C21_Witness ==
  /\ op.name = "insert" /\ failed = "no" /\ cap >= 2 /\ prev.next = cap
  /\ \/ ~PrevStored /\ PrevLen = cap - 1
     \/ PrevStored /\ PrevLen = cap

\* C22: the container refines an abstract map. After any sequence of calls
\* that never stores more than N keys, run on the container and on a finite
\* function from keys to values, len(), is_empty(), contains_key(k), get(k)
\* and get_key_value(k) of the container are those of the function, for
\* every key k, wherever the tombstoned slots and the mark are.
C22_Refinement ==
  Usable =>
    /\ len(pairs, next) = abs_len(abs)
    /\ is_empty(pairs, next) <=> (abs_len(abs) = 0)
    /\ \A k \in Keys :
         /\ contains_key(pairs, next, k) <=> (abs[k] # None)
         /\ get(pairs, next, k) = abs[k]
         /\ get_key_value(pairs, next, k) =
              (IF abs[k] = None THEN None ELSE Some(k, abs[k].v))

\* After one of the five calls: a key stored behind a tombstoned slot, with
\* the mark at N and above len(), and another key absent.
C22_Witness ==
  /\ Usable /\ cap >= 2 /\ next = cap /\ len(pairs, next) < next
  /\ op.name \in {"insert", "remove", "remove_entry", "retain", "clear"}
  /\ \E i \in Occupied(pairs, next) : \E j \in Tombstoned(pairs, next) : j < i
  /\ \E k \in Keys : abs[k] = None

====
